---- MODULE Spec2Model ----
(***************************************************************************)
(* A model of auto_reserve.py: the scraper of open driving-class slots,    *)
(* its slot parser (find_status1_elements), its eligibility filter         *)
(* (should_notify_for_slot), the collection run                            *)
(* (check_for_available_slots), the Slack notification                     *)
(* (send_slack_notification) and the scheduling loop (main).               *)
(*                                                                         *)
(* Text is modelled as a sequence of one-character strings, so that        *)
(* slicing, splitting and int() work on it as they do in Python.  The      *)
(* Japanese date and weekday texts of the site are opaque to the program;  *)
(* they are written here in ASCII ("6/28" for the date text, "(Sa)" for    *)
(* the weekday text).                                                      *)
(* Time is counted in minutes since 0001-01-01 00:00 (datetime ordinal).   *)
(***************************************************************************)
EXTENDS Integers, Sequences, FiniteSets, TLC

VARIABLES
    pc,                     \* position of the process (see the actions)
    caller,                 \* who called check_for_available_slots
    now,                    \* the wall clock, datetime.now(), in minutes
    browser,                \* the WebDriver: "none", "open", "closed"
    dom,                    \* td.status1 elements find_elements returned last
    has_next_page,          \* check_for_available_slots: has_next_page
    page_count,             \* check_for_available_slots: page_count
    all_slot_data_list,     \* check_for_available_slots: all_slot_data_list
    idx,                    \* number of slots the filter loop has judged
    decisions,              \* what should_notify_for_slot returned for each
    slots_for_notification, \* check_for_available_slots: the labels kept
    posted,                 \* bodies handed to chat_postMessage in this run
    slack_configured,       \* SLACK_TOKEN and SLACK_CHANNEL are both set
    next_run,               \* schedule: the job's next_run, 0 before .do()
    last_end,               \* when the last run returned, 0 once another began
    overran,                \* that run took longer than the interval
    elapsed,                \* minutes the current run has taken, up to Interval + 1
    active,                 \* runs in progress
    runs,                   \* runs started so far
    pages_scraped,          \* pages scraped in the current run
    elems_seen,             \* elements the site has shown in the current run
    login_result,           \* what login_to_e_license returned: "none" before
    crash_cause,            \* why and where the process died, <<>> while alive
    in_page,                \* ParseSpec: the page handed to the parser
    out_slots,              \* ParseSpec: what the parser returned
    in_slot,                \* FilterSpec: the slot handed to the filter
    out_notify              \* FilterSpec: what the filter returned

vars == <<pc, caller, now, browser, dom, has_next_page, page_count,
          all_slot_data_list, idx, decisions, slots_for_notification,
          posted, slack_configured, next_run, last_end, overran,
          elapsed, active, runs, pages_scraped, elems_seen, login_result,
          crash_cause,
          in_page, out_slots, in_slot, out_notify>>

----------------------------------------------------------------------------
(* Bounds of the model *)

\* pages the site exposes at most (it has finitely many next pages)
MaxPages == 2
\* td.status1 elements the site shows in one run, over all its pages
MaxSlots == 3
\* minutes the clock advances at most
MaxTicks == 5
\* runs the process starts at most
MaxRuns == 3

----------------------------------------------------------------------------
(* Python text and integers *)

None == <<"None">>

Digits == <<"0", "1", "2", "3", "4", "5", "6", "7", "8", "9">>

IsDigit(c) == \E i \in 1..10 : Digits[i] = c

DigitVal(c) == (CHOOSE i \in 1..10 : Digits[i] = c) - 1

Min(a, b) == IF a < b THEN a ELSE b

\* s[lo:hi] of Python, lo and hi counted from 0
Slice(s, lo, hi) == SubSeq(s, lo + 1, Min(hi, Len(s)))

\* s[lo:] of Python
SliceFrom(s, lo) == SubSeq(s, lo + 1, Len(s))

RECURSIVE StripLeft(_)
StripLeft(s) ==
    IF s # <<>> /\ Head(s) = " " THEN StripLeft(Tail(s)) ELSE s

RECURSIVE StripRight(_)
StripRight(s) ==
    IF s # <<>> /\ s[Len(s)] = " "
    THEN StripRight(SubSeq(s, 1, Len(s) - 1))
    ELSE s

\* the digits of an int() literal: digits, single underscores between them
RECURSIVE DigitsOk(_, _)
DigitsOk(s, afterDigit) ==
    IF s = <<>> THEN afterDigit
    ELSE IF IsDigit(Head(s)) THEN DigitsOk(Tail(s), TRUE)
    ELSE IF Head(s) = "_" THEN afterDigit /\ DigitsOk(Tail(s), FALSE)
    ELSE FALSE

RECURSIVE DigitsValue(_, _)
DigitsValue(s, acc) ==
    IF s = <<>> THEN acc
    ELSE IF Head(s) = "_" THEN DigitsValue(Tail(s), acc)
    ELSE DigitsValue(Tail(s), 10 * acc + DigitVal(Head(s)))

\* int(s): [ok |-> FALSE] stands for ValueError
PyInt(s) ==
    LET t == StripRight(StripLeft(s))
        signed == t # <<>> /\ Head(t) \in {"+", "-"}
        body == IF signed THEN Tail(t) ELSE t
    IN  IF DigitsOk(body, FALSE)
        THEN [ok |-> TRUE,
              val |-> IF signed /\ Head(t) = "-"
                      THEN 0 - DigitsValue(body, 0)
                      ELSE DigitsValue(body, 0)]
        ELSE [ok |-> FALSE, val |-> 0]

\* s.split(sep)
RECURSIVE SplitAcc(_, _, _)
SplitAcc(s, sep, cur) ==
    IF s = <<>> THEN <<cur>>
    ELSE IF Head(s) = sep THEN <<cur>> \o SplitAcc(Tail(s), sep, <<>>)
    ELSE SplitAcc(Tail(s), sep, Append(cur, Head(s)))

Split(s, sep) == SplitAcc(s, sep, <<>>)

\* truthiness of an attribute value: neither None nor ""
Truthy(a) == a # None /\ a # <<>>

----------------------------------------------------------------------------
(* datetime *)

IsLeap(y) == y % 4 = 0 /\ (y % 100 # 0 \/ y % 400 = 0)

DaysInMonth(y, m) ==
    IF m = 2 THEN (IF IsLeap(y) THEN 29 ELSE 28)
    ELSE IF m \in {4, 6, 9, 11} THEN 30 ELSE 31

RECURSIVE DaysBeforeMonth(_, _)
DaysBeforeMonth(y, m) ==
    IF m <= 1 THEN 0
    ELSE DaysBeforeMonth(y, m - 1) + DaysInMonth(y, m - 1)

DaysBeforeYear(y) ==
    (y - 1) * 365 + ((y - 1) \div 4) - ((y - 1) \div 100) + ((y - 1) \div 400)

\* datetime(year, month, day, hour, minute) raises ValueError outside these
ValidDateTime(y, m, d, h, mi) ==
    /\ y \in 1..9999
    /\ m \in 1..12
    /\ d >= 1 /\ d <= DaysInMonth(y, m)
    /\ h \in 0..23
    /\ mi \in 0..59

ToOrdinal(y, m, d) == DaysBeforeYear(y) + DaysBeforeMonth(y, m) + d

\* datetime.weekday(): Monday is 0, Sunday is 6
Weekday(y, m, d) == (ToOrdinal(y, m, d) + 6) % 7

\* a datetime with zero seconds, as minutes
Instant(y, m, d, h, mi) == ToOrdinal(y, m, d) * 1440 + h * 60 + mi

\* timedelta(weeks=2), in minutes
TwoWeeks == 2 * 7 * 1440

----------------------------------------------------------------------------
(* find_status1_elements: one page's elements to slot records *)

\* One td.status1 element: has_a tells whether it holds an <a> tag, the rest
\* are the tag's attributes (None when the attribute is absent).
Element(a, yoyaku, date, time, week) ==
    [has_a |-> a, data_yoyaku |-> yoyaku, data_date |-> date,
     data_time |-> time, data_week |-> week]

\* The body of the per-element try block: <<record>> when a slot record is
\* appended, <<>> when the element is skipped (the if is false, or an
\* exception is caught by the per-element except).
ParseElement(e) ==
    IF ~e.has_a THEN <<>>
    ELSE IF ~(Truthy(e.data_yoyaku) /\ Truthy(e.data_time)
              /\ Truthy(e.data_date) /\ Truthy(e.data_week)) THEN <<>>
    ELSE
      LET year == PyInt(Slice(e.data_yoyaku, 0, 4))
          month == PyInt(Slice(e.data_yoyaku, 4, 6))
          day == PyInt(SliceFrom(e.data_yoyaku, 6))
          parts == Split(e.data_time, ":")
      IN  IF ~(year.ok /\ month.ok /\ day.ok) THEN <<>>
          ELSE IF Len(parts) # 2 THEN <<>>
          ELSE
            LET hour == PyInt(parts[1])
                minute == PyInt(parts[2])
            IN  IF ~(hour.ok /\ minute.ok) THEN <<>>
                ELSE IF ~ValidDateTime(year.val, month.val, day.val,
                                       hour.val, minute.val) THEN <<>>
                ELSE << [year |-> year.val, month |-> month.val,
                         day |-> day.val, hour |-> hour.val,
                         minute |-> minute.val,
                         weekday_val |->
                             Weekday(year.val, month.val, day.val),
                         formatted_str |->
                             e.data_date \o e.data_week \o <<" ">>
                               \o e.data_time] >>


----------------------------------------------------------------------------
(* should_notify_for_slot *)

SlotInstant(s) == Instant(s.year, s.month, s.day, s.hour, s.minute)

\* a faulty variant: the lookahead gate also rejects the instant now + 2 weeks
should_notify_for_slot_ge(slot_data, clock) ==
    IF SlotInstant(slot_data) >= clock + TwoWeeks THEN FALSE
    ELSE IF slot_data.weekday_val = 5 \/ slot_data.weekday_val = 6 THEN TRUE
    ELSE IF 0 <= slot_data.weekday_val /\ slot_data.weekday_val <= 4
            /\ slot_data.hour >= 19 THEN TRUE
    ELSE IF slot_data.weekday_val = 2 /\ slot_data.hour = 13 THEN TRUE
    ELSE FALSE

\* clock is the value datetime.now() returns inside the call
should_notify_for_slot(slot_data, clock) ==
    IF SlotInstant(slot_data) > clock + TwoWeeks THEN FALSE
    ELSE IF slot_data.weekday_val = 5 \/ slot_data.weekday_val = 6 THEN TRUE
    ELSE IF 0 <= slot_data.weekday_val /\ slot_data.weekday_val <= 4
            /\ slot_data.hour >= 19 THEN TRUE
    ELSE IF slot_data.weekday_val = 2 /\ slot_data.hour = 13 THEN TRUE
    ELSE FALSE

----------------------------------------------------------------------------
(* send_slack_notification *)

Contains(list, x) == \E i \in 1..Len(list) : list[i] = x

\* a faulty variant: every result is appended, duplicates included
RECURSIVE UniqueKeepAll(_, _)
UniqueKeepAll(results, unique_filtered_results) ==
    IF results = <<>> THEN unique_filtered_results
    ELSE UniqueKeepAll(Tail(results),
                       Append(unique_filtered_results, Head(results)))

\* the loop that removes duplicates, keeping the first occurrence
RECURSIVE Unique(_, _)
Unique(results, unique_filtered_results) ==
    IF results = <<>> THEN unique_filtered_results
    ELSE IF Contains(unique_filtered_results, Head(results))
         THEN Unique(Tail(results), unique_filtered_results)
         ELSE Unique(Tail(results),
                     Append(unique_filtered_results, Head(results)))

E_LICENSE_URL == "https://www.e-license.jp/el31/mSg1DWxRvAI-brGQYS-1OA=="

Heading == "heading"

\* the message, line by line: the URL, the heading, then "- label" lines
Message(unique_filtered_results) ==
    << <<E_LICENSE_URL>>, <<Heading>> >>
      \o [i \in 1..Len(unique_filtered_results) |->
            <<"-", " ">> \o unique_filtered_results[i]]

\* what chat_postMessage can do: return, raise SlackApiError (the API
\* rejects the call), or raise another exception (the request itself fails)
PostOutcomes == {"ok", "SlackApiError", "OtherError"}

----------------------------------------------------------------------------
(* schedule, and the steps of check_for_available_slots *)

\* schedule.every(2).minutes
Interval == 2

\* a faulty variant: the period is forgotten, the job is due at once
ScheduleNextRunNow(clock) == clock

\* Job._schedule_next_run: next_run = datetime.now() + period
ScheduleNextRun(clock) == clock + Interval

\* a faulty variant: the driver is not used as a context manager
WithExitLeak(b) == b

\* leaving the with block, by any path, quits the driver
WithExit(b) == "closed"

\* a faulty variant: a failed login does not return
AfterLoginIgnore(ok) == "scrape"

\* if not login_to_e_license(driver): return
AfterLogin(ok) == IF ok THEN "scrape" ELSE "return"

\* a faulty variant: the page's list replaces the collected list
ExtendOverwrite(all, page_slot_data_list) == page_slot_data_list

\* all_slot_data_list.extend(page_slot_data_list)
Extend(all, page_slot_data_list) == all \o page_slot_data_list

\* a faulty variant: the label is kept whatever the filter says
KeepLabelAlways(kept, slot_data, notify) ==
    Append(kept, slot_data.formatted_str)

\* if should_notify_for_slot(slot_data): slots_for_notification.append(...)
KeepLabel(kept, slot_data, notify) ==
    IF notify THEN Append(kept, slot_data.formatted_str) ELSE kept

----------------------------------------------------------------------------
(* The inputs: what the site shows, and when the process starts *)

\* sequences over S of length at most n
SeqsUpTo(S, n) == UNION {[1..k -> S] : k \in 0..n}

Str2(n) == <<Digits[(n \div 10) + 1], Digits[(n % 10) + 1]>>

\* data-yoyaku of a day of June 2025
June(d) == <<"2", "0", "2", "5", "0", "6">> \o Str2(d)

\* data-time of an hour and a minute, as the site writes it
Clock(h, mi) ==
    (IF h >= 10 THEN Str2(h) ELSE <<Digits[h + 1]>>) \o <<":">> \o Str2(mi)

\* the process starts on Saturday 2025-06-14 at 08:59
Now0 == Instant(2025, 6, 14, 8, 59)

\* Saturday 2025-06-28 9:00: one minute past Now0 + 2 weeks
SlotEdge == Element(TRUE, June(28), <<"6", "/", "2", "8">>,
                    Clock(9, 0), <<"(", "S", "a", ")">>)

\* Saturday 2025-06-21 9:00 under the texts of 6/28: the label of SlotEdge
SlotSameLabel == Element(TRUE, June(21), <<"6", "/", "2", "8">>,
                         Clock(9, 0), <<"(", "S", "a", ")">>)

\* Wednesday 2025-06-25 13:00
SlotWed == Element(TRUE, June(25), <<"6", "/", "2", "5">>,
                   Clock(13, 0), <<"(", "W", "e", ")">>)

\* a time text without a separator
SlotBadTime == Element(TRUE, June(28), <<"6", "/", "2", "8">>,
                       <<"9">>, <<"(", "S", "a", ")">>)

\* the elements a page of a run shows
RunElements == {SlotEdge, SlotSameLabel, SlotWed}

\* the elements the parser is tried on
ParseElements ==
    { SlotEdge, SlotWed, SlotBadTime,
      \* a td without an <a> tag
      Element(FALSE, None, None, None, None),
      \* an attribute absent, an attribute empty
      Element(TRUE, None, <<"6", "/", "2", "8">>, Clock(9, 0),
              <<"(", "S", "a", ")">>),
      Element(TRUE, June(28), <<>>, Clock(9, 0), <<"(", "S", "a", ")">>),
      Element(TRUE, June(28), <<"6", "/", "2", "8">>, Clock(9, 0), None),
      \* date codes of 7 and of 9 digits, of 6 digits, with a letter, a sign
      Element(TRUE, <<"2", "0", "2", "5", "0", "6", "1">>,
              <<"6", "/", "1">>, Clock(9, 0), <<"(", "S", "u", ")">>),
      Element(TRUE, <<"2", "0", "2", "5", "0", "6", "0", "2", "8">>,
              <<"6", "/", "2", "8">>, Clock(9, 0), <<"(", "S", "a", ")">>),
      Element(TRUE, <<"2", "0", "2", "5", "0", "6">>,
              <<"6", "/", "2", "8">>, Clock(9, 0), <<"(", "S", "a", ")">>),
      Element(TRUE, <<"2", "0", "2", "5", "0", "6", "2", "x">>,
              <<"6", "/", "2", "8">>, Clock(9, 0), <<"(", "S", "a", ")">>),
      Element(TRUE, <<"+", "2", "2", "5", "0", "6", "2", "8">>,
              <<"6", "/", "2", "8">>, Clock(9, 0), <<"(", "S", "a", ")">>),
      \* June 31st
      Element(TRUE, June(31), <<"6", "/", "3", "1">>, Clock(9, 0),
              <<"(", "T", "u", ")">>),
      \* times with two separators, an hour of 25, a letter
      Element(TRUE, June(28), <<"6", "/", "2", "8">>,
              <<"9", ":", "0", "0", ":", "0", "0">>, <<"(", "S", "a", ")">>),
      Element(TRUE, June(28), <<"6", "/", "2", "8">>, Clock(25, 0),
              <<"(", "S", "a", ")">>),
      Element(TRUE, June(28), <<"6", "/", "2", "8">>,
              <<"9", ":", "x", "0">>, <<"(", "S", "a", ")">>) }

\* the slots the filter is tried on: 2025-06-23 (Monday) to 2025-06-30
FilterElements ==
    { Element(TRUE, June(d), <<"6", "/">> \o Str2(d), Clock(t[1], t[2]),
              <<"(", ")">>) :
        d \in 23..30,
        t \in {<<8, 59>>, <<9, 0>>, <<12, 59>>, <<13, 0>>, <<14, 0>>,
               <<18, 59>>, <<19, 0>>, <<23, 59>>} }

\* the moments the filter is tried at: around Saturday 2025-06-14 8:59 and
\* around Wednesday 2025-06-11 13:00, and a month earlier
FilterNows ==
    { Now0, Now0 + 1, Instant(2025, 6, 11, 12, 59),
      Instant(2025, 6, 11, 13, 0), Instant(2025, 5, 14, 8, 59),
      Instant(2025, 6, 16, 23, 59) }

\* every element the site is taken to show
Elements == RunElements \cup ParseElements \cup FilterElements

\* ParseElement of each of them, worked out once
Parsed == [e \in Elements |-> ParseElement(e)]

\* the for loop over the page's elements
RECURSIVE find_status1_elements(_)
find_status1_elements(elements) ==
    IF elements = <<>> THEN <<>>
    ELSE Parsed[Head(elements)] \o find_status1_elements(Tail(elements))

----------------------------------------------------------------------------
(* The process *)

Alive == pc \in {"start", "create", "login", "scrape", "next", "filter",
                 "notify", "return", "sched"}

InRun == pc \in {"create", "login", "scrape", "next", "filter", "notify",
                 "return"}

RunLocals == <<browser, dom, has_next_page, page_count, all_slot_data_list, idx,
               decisions, slots_for_notification, posted, pages_scraped,
               elems_seen, login_result>>

\* the locals but the posted bodies
RunState == <<browser, dom, has_next_page, page_count, all_slot_data_list, idx,
              decisions, slots_for_notification, pages_scraped, elems_seen,
              login_result>>

Sched == <<next_run, last_end, overran, elapsed, active, runs>>

Pure == <<in_page, out_slots, in_slot, out_notify>>

\* the locals of check_for_available_slots before its first statement
FreshLocals ==
    /\ browser = "none"
    /\ dom = <<>>
    /\ has_next_page = FALSE
    /\ page_count = 0
    /\ all_slot_data_list = <<>>
    /\ idx = 0
    /\ decisions = <<>>
    /\ slots_for_notification = <<>>
    /\ posted = <<>>
    /\ pages_scraped = 0
    /\ elems_seen = 0
    /\ login_result = "none"

FreshLocalsNext ==
    /\ browser' = "none"
    /\ dom' = <<>>
    /\ has_next_page' = FALSE
    /\ page_count' = 0
    /\ all_slot_data_list' = <<>>
    /\ idx' = 0
    /\ decisions' = <<>>
    /\ slots_for_notification' = <<>>
    /\ posted' = <<>>
    /\ pages_scraped' = 0
    /\ elems_seen' = 0
    /\ login_result' = "none"

NoPure ==
    /\ in_page = <<>>
    /\ out_slots = <<>>
    /\ in_slot = <<>>
    /\ out_notify = FALSE

\* python auto_reserve.py, or python auto_reserve.py --test
Init ==
    /\ pc = "start"
    /\ caller \in {"main", "test"}
    /\ now = Now0
    /\ slack_configured \in BOOLEAN
    /\ FreshLocals
    /\ next_run = 0
    /\ last_end = 0
    /\ overran = FALSE
    /\ elapsed = 0
    /\ active = 0
    /\ runs = 0
    /\ crash_cause = <<>>
    /\ NoPure

\* an uncaught exception ends the process; the with block, if entered,
\* quits the driver on the way out
Crash(cause) ==
    /\ pc' = "crashed"
    /\ crash_cause' = <<cause, pc>>
    /\ active' = 0
    /\ browser' = IF browser = "open" THEN WithExit(browser) ELSE browser
    /\ dom' = <<>>
    /\ has_next_page' = FALSE
    /\ page_count' = 0
    /\ all_slot_data_list' = <<>>
    /\ idx' = 0
    /\ decisions' = <<>>
    /\ slots_for_notification' = <<>>
    /\ pages_scraped' = 0
    /\ elems_seen' = 0
    /\ login_result' = "none"

\* the clock advances a minute
Tick ==
    /\ Alive
    /\ now < Now0 + MaxTicks
    /\ now' = now + 1
    /\ elapsed' = IF InRun /\ elapsed <= Interval THEN elapsed + 1 ELSE elapsed
    /\ UNCHANGED <<pc, caller, slack_configured, crash_cause, RunLocals,
                   next_run, last_end, overran, active, runs, Pure>>

\* main() or the --test branch calls check_for_available_slots()
EagerRun ==
    /\ pc = "start"
    /\ pc' = "create"
    /\ runs' = runs + 1
    /\ active' = active + 1
    /\ elapsed' = 0
    /\ UNCHANGED <<caller, now, slack_configured, crash_cause, RunLocals,
                   next_run, last_end, overran, Pure>>

\* schedule.run_pending(): the job runs when it is due
RunPending ==
    /\ pc = "sched"
    /\ runs < MaxRuns
    /\ now >= next_run
    /\ pc' = "create"
    /\ caller' = "job"
    /\ runs' = runs + 1
    /\ active' = active + 1
    /\ elapsed' = 0
    /\ last_end' = 0
    /\ overran' = FALSE
    /\ UNCHANGED <<now, slack_configured, crash_cause, RunLocals,
                   next_run, Pure>>

\* create_driver(): the driver starts, or webdriver.Chrome raises
CreateDriver ==
    /\ pc = "create"
    /\ \/ /\ browser' = "open"
          /\ pc' = "login"
          /\ UNCHANGED <<crash_cause, active, dom, has_next_page, page_count,
                         all_slot_data_list, idx, decisions,
                         slots_for_notification, pages_scraped, elems_seen,
                         login_result>>
       \/ Crash("driver")
    /\ UNCHANGED <<caller, now, slack_configured, posted, next_run,
                   last_end, overran, elapsed, runs, Pure>>

\* login_to_e_license(driver) and the test of its result
Login ==
    /\ pc = "login"
    /\ \E ok \in BOOLEAN :
         /\ login_result' = IF ok THEN "ok" ELSE "failed"
         /\ pc' = AfterLogin(ok)
         /\ IF AfterLogin(ok) = "scrape"
            THEN /\ has_next_page' = TRUE
                 /\ page_count' = 1
                 /\ UNCHANGED browser
            ELSE /\ browser' = WithExit(browser)
                 /\ UNCHANGED <<has_next_page, page_count>>
    /\ UNCHANGED <<caller, now, slack_configured, crash_cause, dom,
                   all_slot_data_list, idx, decisions,
                   slots_for_notification, posted, pages_scraped, elems_seen,
                   Sched, Pure>>

\* the first half of a pass of the while loop: the page's elements are read
\* (the site shows at most MaxSlots of them in a run) and their slots added
ScrapePage ==
    /\ pc = "scrape"
    /\ \E page \in SeqsUpTo(RunElements, MaxSlots - elems_seen) :
         /\ dom' = page
         /\ elems_seen' = elems_seen + Len(page)
         /\ all_slot_data_list' =
                Extend(all_slot_data_list, find_status1_elements(page))
    /\ pages_scraped' = pages_scraped + 1
    /\ pc' = "next"
    /\ UNCHANGED <<caller, now, slack_configured, crash_cause, browser,
                   has_next_page, page_count, idx, decisions,
                   slots_for_notification, posted, login_result, Sched,
                   Pure>>

\* the second half: the nextWeek button is clicked, or, there being none (the
\* site has at most MaxPages pages), the loop and the with block are left
NextWeek ==
    /\ pc = "next"
    /\ \E found \in IF page_count < MaxPages THEN BOOLEAN ELSE {FALSE} :
         IF found
         THEN /\ page_count' = page_count + 1
              /\ pc' = "scrape"
              /\ UNCHANGED <<has_next_page, browser>>
         ELSE /\ has_next_page' = FALSE
              /\ pc' = "filter"
              /\ browser' = WithExit(browser)
              /\ UNCHANGED page_count
    /\ dom' = <<>>
    /\ UNCHANGED <<caller, now, slack_configured, crash_cause,
                   all_slot_data_list, idx, decisions,
                   slots_for_notification, posted, pages_scraped, elems_seen,
                   login_result, Sched, Pure>>

\* one pass of the for loop over all_slot_data_list
FilterSlot ==
    /\ pc = "filter"
    /\ idx < Len(all_slot_data_list)
    /\ LET slot_data == all_slot_data_list[idx + 1]
           notify == should_notify_for_slot(slot_data, now)
       IN  /\ decisions' = Append(decisions, notify)
           /\ slots_for_notification' =
                  KeepLabel(slots_for_notification, slot_data, notify)
    /\ idx' = idx + 1
    /\ UNCHANGED <<pc, caller, now, slack_configured, crash_cause, browser,
                   dom, has_next_page, page_count, all_slot_data_list, posted,
                   pages_scraped, elems_seen, login_result, Sched, Pure>>

\* after the for loop (or without it, the list being empty)
EndFilter ==
    /\ pc = "filter"
    /\ idx = Len(all_slot_data_list)
    /\ pc' = IF slots_for_notification # <<>> THEN "notify" ELSE "return"
    /\ UNCHANGED <<caller, now, slack_configured, crash_cause, RunLocals,
                   Sched, Pure>>

\* send_slack_notification(slots_for_notification)
Notify ==
    /\ pc = "notify"
    /\ LET unique_filtered_results == Unique(slots_for_notification, <<>>)
       IN  IF ~slack_configured \/ unique_filtered_results = <<>>
           THEN /\ pc' = "return"
                /\ UNCHANGED <<posted, crash_cause, active, RunState>>
           ELSE /\ posted' =
                       Append(posted, Message(unique_filtered_results))
                /\ \E outcome \in PostOutcomes :
                     IF outcome = "OtherError"
                     THEN Crash("notify")
                     ELSE /\ pc' = "return"
                          /\ UNCHANGED <<crash_cause, active, RunState>>
    /\ UNCHANGED <<caller, now, slack_configured, next_run, last_end,
                   overran, elapsed, runs, Pure>>

\* check_for_available_slots returns: to the --test branch, which exits; to
\* main, which registers the job; or to the job, which is rescheduled
Return ==
    /\ pc = "return"
    /\ active' = active - 1
    /\ last_end' = now
    /\ overran' = (elapsed > Interval)
    /\ FreshLocalsNext
    /\ IF caller = "test"
       THEN pc' = "exited" /\ UNCHANGED next_run
       ELSE pc' = "sched" /\ next_run' = ScheduleNextRun(now)
    /\ UNCHANGED <<caller, now, slack_configured, crash_cause, elapsed,
                   runs, Pure>>

\* KeyboardInterrupt, which no except Exception clause catches
Interrupt ==
    /\ Alive
    /\ Crash("interrupt")
    /\ posted' = <<>>
    /\ UNCHANGED <<caller, now, slack_configured, next_run, last_end,
                   overran, elapsed, runs, Pure>>

Next ==
    \/ Tick
    \/ EagerRun
    \/ RunPending
    \/ CreateDriver
    \/ Login
    \/ ScrapePage
    \/ NextWeek
    \/ FilterSlot
    \/ EndFilter
    \/ Notify
    \/ Return
    \/ Interrupt

Spec == Init /\ [][Next]_vars

\* the steps of a run: the one thread of the process takes them in turn
RunStep ==
    \/ CreateDriver
    \/ Login
    \/ ScrapePage
    \/ NextWeek
    \/ FilterSlot
    \/ EndFilter
    \/ Notify
    \/ Return

\* python auto_reserve.py --test: one run, then the process exits
TestInit == Init /\ caller = "test"

TestNext ==
    \/ Tick
    \/ EagerRun
    \/ RunStep
    \/ Interrupt

\* the one thread does not stop by itself in the middle of a run
TestSpec == TestInit /\ [][TestNext]_vars /\ WF_vars(RunStep)

----------------------------------------------------------------------------
(* The parser alone: a page is drawn, find_status1_elements is applied *)

ParseInit ==
    /\ pc = "parse"
    /\ caller = "test"
    /\ now = Now0
    /\ slack_configured = FALSE
    /\ FreshLocals
    /\ next_run = 0
    /\ last_end = 0
    /\ overran = FALSE
    /\ elapsed = 0
    /\ active = 0
    /\ runs = 0
    /\ crash_cause = <<>>
    /\ in_page \in SeqsUpTo(ParseElements, MaxSlots)
    /\ out_slots = <<>>
    /\ in_slot = <<>>
    /\ out_notify = FALSE

ParsePage ==
    /\ pc = "parse"
    /\ out_slots' = find_status1_elements(in_page)
    /\ pc' = "parsed"
    /\ UNCHANGED <<caller, now, slack_configured, crash_cause, RunLocals,
                   Sched, in_page, in_slot, out_notify>>

ParseSpec == ParseInit /\ [][ParsePage]_vars

----------------------------------------------------------------------------
(* The filter alone: a slot and a moment are drawn, the filter is applied *)

FilterInit ==
    /\ pc = "decide"
    /\ caller = "test"
    /\ now \in FilterNows
    /\ slack_configured = FALSE
    /\ FreshLocals
    /\ next_run = 0
    /\ last_end = 0
    /\ overran = FALSE
    /\ elapsed = 0
    /\ active = 0
    /\ runs = 0
    /\ crash_cause = <<>>
    /\ in_page = <<>>
    /\ out_slots = <<>>
    /\ in_slot \in {ParseElement(e)[1] : e \in FilterElements}
    /\ out_notify = FALSE

Decide ==
    /\ pc = "decide"
    /\ out_notify' = should_notify_for_slot(in_slot, now)
    /\ pc' = "decided"
    /\ UNCHANGED <<caller, now, slack_configured, crash_cause, RunLocals,
                   Sched, in_page, out_slots, in_slot>>

FilterSpec == FilterInit /\ [][Decide]_vars

----------------------------------------------------------------------------
(* The claims *)

DayRule(slot) ==
    \/ slot.weekday_val \in {5, 6}
    \/ slot.weekday_val \in 0..4 /\ slot.hour >= 19
    \/ slot.weekday_val = 2 /\ slot.hour = 13

\* C1: should_notify_for_slot returns true exactly when the slot's instant is
\* not later than now + 14 days and the slot is on a Saturday or a Sunday,
\* or on Monday..Friday at hour >= 19, or on a Wednesday at hour 13.
C1_EligibilityRule ==
    pc = "decided" =>
        (out_notify <=>
            (SlotInstant(in_slot) <= now + 14 * 24 * 60 /\ DayRule(in_slot)))

\* a slot exactly at now + 14 days, on a day its rule accepts, was accepted
C1_Witness ==
    /\ pc = "decided"
    /\ SlotInstant(in_slot) = now + 14 * 24 * 60
    /\ in_slot.weekday_val = 2
    /\ out_notify

\* C2: every slot of a run is judged against one snapshot of now, so two
\* slots of a run with the same date and time get the same decision.
C2_OneSnapshotPerRun ==
    \A i, j \in 1..Len(decisions) :
        (/\ all_slot_data_list[i].year = all_slot_data_list[j].year
         /\ all_slot_data_list[i].month = all_slot_data_list[j].month
         /\ all_slot_data_list[i].day = all_slot_data_list[j].day
         /\ all_slot_data_list[i].hour = all_slot_data_list[j].hour
         /\ all_slot_data_list[i].minute = all_slot_data_list[j].minute)
        => decisions[i] = decisions[j]

\* the labels of a message body: its lines after the two header lines,
\* without their "- "
LabelsOf(message) ==
    [k \in 1..(Len(message) - 2) |->
        SubSeq(message[k + 2], 3, Len(message[k + 2]))]

\* the slots of the run the filter accepted
Eligible == {i \in 1..Len(decisions) : decisions[i]}

LabelAt(i) == all_slot_data_list[i].formatted_str

FirstEligible(label) ==
    CHOOSE i \in Eligible :
        LabelAt(i) = label /\ \A j \in Eligible : LabelAt(j) = label => i <= j

\* C3: the labels of the notification are the labels of the eligible slots,
\* each once, in the order of their first occurrences.
C3_DedupByLabel ==
    (pc = "return" /\ posted # <<>>) =>
        \A n \in 1..Len(posted) :
            LET labels == LabelsOf(posted[n])
            IN  /\ \A i \in Eligible :
                     Cardinality({k \in 1..Len(labels) :
                                     labels[k] = LabelAt(i)}) = 1
                /\ \A k \in 1..Len(labels) :
                     \E i \in Eligible : labels[k] = LabelAt(i)
                /\ \A k1, k2 \in 1..Len(labels) :
                     k1 < k2 =>
                        FirstEligible(labels[k1]) < FirstEligible(labels[k2])

\* two eligible slots of different days with one label, and a slot with
\* another label after them, were posted as two lines
C3_Witness ==
    /\ pc = "return"
    /\ Len(posted) = 1
    /\ Len(LabelsOf(posted[1])) = 2
    /\ \E i, j \in Eligible :
         /\ i < j
         /\ LabelAt(i) = LabelAt(j)
         /\ all_slot_data_list[i].day # all_slot_data_list[j].day
         /\ j < Len(decisions)

\* C4: in a run where no scraped slot passes the filter (or none was
\* scraped), chat_postMessage is never called.
C4_EmptyNeverPosts ==
    (InRun /\ Eligible = {}) => posted = <<>>

\* a run with Slack configured scraped slots, accepted none, and returns
\* without a post
C4_Witness ==
    /\ pc = "return"
    /\ slack_configured
    /\ all_slot_data_list # <<>>
    /\ idx = Len(all_slot_data_list)
    /\ Eligible = {}
    /\ posted = <<>>

AllDigits(s) == \A i \in 1..Len(s) : IsDigit(s[i])

\* a well-formed element, as the claim C5 has it
WellFormed(e) ==
    /\ e.has_a
    /\ Truthy(e.data_yoyaku) /\ Truthy(e.data_date)
    /\ Truthy(e.data_time) /\ Truthy(e.data_week)
    /\ Len(e.data_yoyaku) = 8 /\ AllDigits(e.data_yoyaku)
    /\ LET parts == Split(e.data_time, ":")
       IN  /\ Len(parts) = 2
           /\ PyInt(parts[1]).ok /\ PyInt(parts[2]).ok
    /\ LET y == DigitsValue(SubSeq(e.data_yoyaku, 1, 4), 0)
           m == DigitsValue(SubSeq(e.data_yoyaku, 5, 6), 0)
           d == DigitsValue(SubSeq(e.data_yoyaku, 7, 8), 0)
       IN  y >= 1 /\ m \in 1..12 /\ d >= 1 /\ d <= DaysInMonth(y, m)

\* C5: an element with a field absent or empty, a date code that is not
\* exactly 8 digits, a time that does not split into hour and minute, or an
\* invalid date yields no slot record; the other elements are parsed in order.
C5_MalformedYieldsNothing ==
    pc = "parsed" =>
        /\ \A i \in 1..Len(in_page) :
             ~WellFormed(in_page[i]) => ParseElement(in_page[i]) = <<>>
        /\ out_slots = find_status1_elements(
                           SelectSeq(in_page, LAMBDA e : WellFormed(e)))

\* C6: the driver of a run is quit on every way out of the run: no state
\* outside the with block has it open.
C6_BrowserReleased ==
    browser = "open" => pc \in {"login", "scrape", "next"}

\* an interrupt while pages were being scraped left the driver closed
C6_Witness ==
    /\ pc = "crashed"
    /\ crash_cause = <<"interrupt", "scrape">>
    /\ browser = "closed"

\* C7: when login returns false no page is scraped, nothing is posted, and
\* the run returns to its caller, which goes on (main to the scheduler).
C7_LoginFailureAborts ==
    /\ [](login_result = "failed" =>
            /\ pc = "return"
            /\ pages_scraped = 0
            /\ all_slot_data_list = <<>>
            /\ posted = <<>>)
    /\ [][(login_result = "failed" /\ pc' # pc) =>
            \/ pc' = "crashed" /\ crash_cause'[1] = "interrupt"
            \/ caller = "test" /\ pc' = "exited"
            \/ caller # "test" /\ pc' = "sched"]_vars

\* a scheduled run whose login failed is about to return
C7_Witness ==
    /\ login_result = "failed"
    /\ pc = "return"
    /\ caller = "job"

\* C8: a failure in a slot's parsing, a page's fetch or a run's notification
\* never ends the process that runs the scheduler loop.
C8_FailuresKeepLoop ==
    (pc = "crashed" /\ caller # "test") =>
        crash_cause[1] \notin {"parse", "page", "notify"}

\* C9: runs never overlap, and a scheduled run starts no sooner than one
\* interval after the run before it returned: an overrun delays the next
\* run, it is not followed by runs back to back.
C9_NoOverlapNoCatchUp ==
    /\ [](active <= 1)
    /\ [][(pc = "sched" /\ pc' = "create") =>
            (active = 0 /\ now >= last_end + Interval)]_vars

\* a run overran, and the run after it is due only now
C9_Witness ==
    /\ pc = "sched"
    /\ overran
    /\ now = next_run
    /\ runs < MaxRuns

\* C10: each pass of the pagination loop adds the page's slots after the
\* ones it has; the loop goes to the next page while there is one and, when
\* there is none, leaves for the filter with all it collected, which the
\* filter keeps; the site having at most MaxPages pages, every run ends.
C10_PaginationEnds ==
    /\ [][(pc = "scrape" /\ pc' = "next") =>
            all_slot_data_list' =
                all_slot_data_list \o find_status1_elements(dom')]_vars
    /\ [][(pc = "next" /\ pc' \notin {"next", "crashed"}) =>
            /\ all_slot_data_list' = all_slot_data_list
            /\ \/ pc' = "scrape" /\ page_count' = page_count + 1
               \/ pc' = "filter" /\ ~has_next_page' /\ crash_cause' = <<>>]_vars
    /\ [][(pc = "filter" /\ pc' \in {"filter", "notify", "return"}) =>
            all_slot_data_list' = all_slot_data_list]_vars
    /\ [](page_count <= MaxPages)
    /\ (InRun ~> ~InRun)

\* a run left its second page for the filter with slots of both pages
C10_Witness ==
    /\ pc = "filter"
    /\ pages_scraped = 2
    /\ Len(all_slot_data_list) = 3
    /\ idx = 0

====
